# Verification of the auto-trading backend

This directory holds TLA+ modules for the Node.js trading backend in `src/`, the
TLC configurations that check them on small instances, and theorems about them
checked by TLAPS. Paths below are relative to the repository root;
`PROJECT.json` gives the source lines of every definition.

The backend runs in one Node.js process. Nothing runs in parallel: the code
between two `await`s, or inside one timer callback, is atomic. What goes wrong
goes wrong because other callbacks run *during* an `await`, because the broker at
the other end of an HTTP call does something other than its answer says, or
because a value computed before an `await` is used after it. Every module is
therefore cut at the awaits: one action per stretch of synchronous code, and a
variable that says at which `await` each asynchronous call is.

## 1. Inventory

### Modelled

| Component | Code | State | Operations |
|---|---|---|---|
| Execution engine | `src/core/engine/modules/execution-engine.js` | `activeTrades`, `tradingHistory`, the trade objects, `dailyRisk` | `executeTrade`, `commitBrokerOrder`, `closeTrade`, `closeBrokerPosition`, `manageActiveTrades`, `syncBrokerProtection` |
| Risk engine | `.../modules/risk-engine.js` | `dailyRisk`, `lastResetDate` | `calculateRiskManagement`, `checkDailyReset`, `canTrade` |
| Entry plan | `src/core/engine/trading-engine.js` | `analyticsCache.entryByPair` | `calculateEntryParameters`, `validateSignal` |
| Broker router | `src/infrastructure/services/brokers/broker-router.js` | `killSwitchEnabled`, `idempotencyCache`, `brokerBreakers`, `orderLog` | `placeOrder`, `manualOrder`, `closePosition`, `modifyPosition`, `setKillSwitch` |
| Trade manager | `src/core/engine/trade-manager.js` | enabled brokers, two intervals, `lastSignalCheck`, realtime candidates, flush timers, cooldowns | `startAutoTrading`, `stopAutoTrading`, `checkForNewSignals`, `enqueueRealtimeSignal`, `flushRealtimeSignalsForBroker` |
| Job queue | `src/infrastructure/services/jobs/job-queue.js` | `pending`, `inFlight`, dead letters, one wake-up | `enqueue`, `start`, `stop`, `processNext`, `executeJob` |
| EA bridge | `.../services/brokers/ea-bridge-service.js` | quotes, candles, bars; streaks and factors; active symbols; snapshot requests; management queue | `recordQuote`, `recordMarketBars`, `handleTransaction`, `getSignalForExecution`, `requestMarketSnapshot`, `consumeMarketSnapshotRequests`, `enqueueManagementCommands` |
| Data quality guard | `.../modules/data-quality-guard.js`, `orchestration-coordinator.js` | report, breaker and streak of a pair | `assessMarketData`, `generateSignal` (refresh) |
| Realtime runner | `.../services/realtime-ea-signal-runner.js` | pending symbols, cursor, flush timer, what was published last per stream | `ingestSymbols`, `flushPending`, `maybeGenerateSignal`, `revalidatePublishedSignals` |
| Price fetcher | `src/infrastructure/data/price-data-fetcher.js` | fetches under way, usage, breaker and backoff of providers | `fetchPriceData`, `fetchQuote`, `canMakeRequest`, `recordRequest` |
| Reconciliation | `.../brokers/reconciliation-service.js` | one timer | `start`, `stop`, `runOnce` |
| Cache service | `.../services/cache-service.js` | entries in order of use | `get`, `set`, `delete`, `getOrSet` |
| Persistence adapter | `src/infrastructure/storage/persistence-adapter.js` | consecutive failures, disabled until | `record...`, `markFailure`, `markSuccess` |
| Prefetch scheduler | `.../services/pair-prefetch-scheduler.js` | time of the last fetch per series | `start`, `runCycle` |
| Alert bus | `.../alerting/alert-bus.js` | recent events | `publish`, `dispatch` |
| Terminal expert | `public/eas/SignalBridge-MT5.mq5` | - | finding commands in a reply; fulfilling snapshot requests |

What makes each of them hard, and when it is correct:

- **Execution engine.** A trade enters the map before its order is answered, so it
  can be closed while the order is under way; several callers close one trade at
  once; an answer may be lost although the broker acted. Correct when risk limits
  hold over all trades in the map, a closed trade stays closed, nobody closes a trade without having found it open,
  and every broker position without a trade has a known cause.
- **Protection of an open trade.** A timer starts `manageActiveTrades` without
  waiting for the previous run; every run has its own price; requests to move the
  broker's stop are throttled, refused, lost or reordered. Correct when the stop
  is never loosened, the broker's stop follows it except for known causes, and a
  trade beyond its stop or target is closed.
- **Risk engine.** A signal keeps the size computed when it was generated. Correct
  when an up-to-date signal never takes the day over its budget.
- **Entry plan.** Clamps on clamps, rounding, levels, and a cache with a partial
  key. Correct when stop and target are on their sides at the promised ratio and
  what the cache returns differs from what was asked only as far as the key allows.
- **Broker router.** Calls overlap, retry after lost answers, and share a cache, a
  breaker and a log. Correct when an order is doubled only where it cannot be
  helped, callers are told the truth, an answer of success stays known, and the
  kill switch never stops a close.
- **Trade manager.** Scans, flushes, starts and stops overlap. Correct when no
  signal is stranded, a trade is doubled only by overlapping calls, and what is
  enabled runs.
- **Job queue.** One `setImmediate` and some timeouts wake it; jobs fail and come
  back, while it is stopped and started. Correct when no job is lost, the limits
  hold, and waiting jobs are always going to be looked at.
- **EA bridge.** Terminals, dashboards and the runner share its maps: payloads of
  different order and age meet in one series, every chart of a terminal polls for
  itself, and an answer is composed after an await during which the symbols it
  consults may be replaced. Correct when series hold the newest data, nobody is told
  to trade while a guard pauses, what is asked of a terminal reaches it, and what it
  is told to do is done.
- **Data quality guard.** Assessments of one pair overlap; each opens, keeps or clears
  the one breaker. Correct when an open breaker blocks whoever reads the report.
- **Realtime runner.** Flushes and revalidations overlap around the engine's await.
  Correct when no symbol is stranded, a bar is announced once, and the minimum
  interval between analyses is kept.
- **Services.** Each has one await between reading its state and writing it: a chain
  of timers that re-arms itself, a value computed before a newer one was stored, a
  write older than the failure it forgives, quotas read before and charged after a
  request, an alert that counts as sent before it is delivered.

### How they interact

`TradeManager` asks the engine for signals and calls `executeTrade`; the engine
sizes them with the risk engine and the entry plan, sends the order through
`commitBrokerOrder` to the broker router, which calls a connector over HTTP.
The monitoring interval of the trade manager calls `manageActiveTrades` and the
smart-exit monitor, which close trades and modify stops through the router. HTTP
routes call the same operations; `POST /broker/manual-close` also closes at the
broker itself. Everything is a direct call on shared objects, except the
connectors (HTTP), the terminals that poll the EA bridge (HTTP), and timers.

### Not modelled

| Component | Why |
|---|---|
| Broker connectors | the far end of the router's HTTP calls: external actions that answer, refuse, or act and lose the answer |
| Intelligent trade manager | a score of the EA bridge's signals; its verdict is a free choice in `ExecutionAnswer` |
| Parts of the EA bridge | symbol metadata, news, diagnostics, readiness scores of a snapshot: read-only, or free choices of the modelled parts. The guard of an answer reads 200 active symbols at most (`ea-bridge-service.js:624`) and, in full-scan mode, every streamed one (193): neither is in `ExecutionAnswer`, whose one pair is followed or not |
| Connection pools, databases | I/O behind the persistence adapter |
| Circuit breaker | a library class nothing uses in this commit |
| Market rules | time-zone arithmetic on the clock, without state |
| Signal orchestration, analyzers, scoring | long floating-point computations; their outcome is a free choice in the models |
| Backtesting, ETL, feature store | offline batch computations |
| HTTP routes, middleware, authentication, WebSocket | adapters; the one route with an order of its own (manual close) is an action of `ExecutionEngine` |
| Heartbeat, health, metrics, logging, reports | read only |
| Bootstrap and configuration | wiring |
| News, calendar and sentiment feeds | fetching and parsing; trading sees a flag, a free choice in `TradeProtection` |
| Indicators and charts of the experts, dashboard | no state shared with the server |

Most of the repository's lines are of this second kind: indicators, scoring layers,
parsing, views. Their results are inputs of the models, chosen freely.
`PROJECT.json` lists each component with its files, and each hazard with its line.

## 2. Modules

| Module | What it is |
|---|---|
| `TradeBook` | abstract: what the engine promises about each trade id |
| `ExecutionEngine` | opening, committing and closing trades, with the risk accounting of the risk engine; implements `TradeBook` |
| `ExecutionEngineProofs` | its theorems, and that it implements `TradeBook` |
| `TradeProtection` | the management of one open trade |
| `TradeProtectionProofs` | its theorems |
| `BrokerRouter` | calls to the router |
| `BrokerRouterProofs` | its theorems |
| `TradeManager` | the automation loop, over an abstract map of trades |
| `TradeManagerProofs` | its theorems |
| `EntryPlan` | the numbers of a trade and their cache |
| `EntryPlanProofs` | its theorems |
| `JobQueue` | the background queue |
| `JobQueueProofs` | its theorems |
| `MarketSeries` | quotes, candles and bars of one symbol |
| `EaLearning` | what the bridge learns from closing deals |
| `DataQuality` | the breaker of one pair over overlapping assessments |
| `ExecutionAnswer` | the bridge's answer to a terminal, beside `DataQuality`, which it extends |
| `SnapshotRequests` | snapshots on demand between dashboard, bridge and charts |
| `ManagementCommands` | management commands from the server's text to the terminal's scanner |
| `RealtimeRunner` | from market data to published signals |
| `PriceFetcher` | shared fetches over limited providers |
| `Reconciliation`, `CacheService`, `PersistenceBackoff`, `PrefetchScheduler`, `AlertBus` | the small services, one each |
| `MCExecutionEngine`, `MCTradeProtection`, `MCBrokerRouter`, `MCTradeManager`, `MCEntryPlan`, `MCManagementCommands` | instances of one module for TLC |
| `Components` | instances of the ten modules of the bridge, the runner, the guard and the services beside each other, their properties, and the assumptions on their constants |
| `ServicesProofs`, `BridgeProofs` | theorems about `Components`: the services; the bridge, the guard and the runner |
| `MCComponents` | `Components` and `EntryPlan` for TLC: they share no state, a behaviour moves one of them |
| `MCProgress` | the same for five services whose properties are mostly about progress |

The order was: the life of a trade (engine, then the router below it and the
manager above it), what happens to a trade while it is open, how its numbers are
made, the bridge to the terminals and what feeds it, then the services.
`ExecutionEngine` contains the risk engine because the two share `dailyRisk`;
`TradeProtection` refines what `ExecutionEngine` abstracts to `CloseTrade`, for a
single trade; `TradeManager` knows the engine's map only; `ExecutionAnswer` composes
the guard with the bridge that reads its reports.

## 3. Models and code

**ExecutionEngine.** A trade id stands for one `executeTrade` call, because each
call makes a fresh id; `call` is where it is. `GenerateSignal` is
`calculateRiskManagement` with `validateSignal`: the verdict and the size are
stored with the signal and not looked at again. `ExecuteTradeAccepted` runs from
the entry of `executeTrade` to the `await` of `commitBrokerOrder` (insertion, sum
per symbol, charge); `CommitSucceeds` and `CommitFails` are what follows it,
whether or not the trade is still in the map. A closer is one caller of
`closeTrade`; `CloseEntered` is its first stretch, `FinishCloseTrade` its last,
which does not test the map again. `BrokerFills` and `BrokerRefuses` are the
broker; an order may fill after `CommitFails`. Risk fractions are integers in one
unit. The guards that only shrink or block a signal (correlation, currency
limits, value at risk) are the choice of a smaller `desired` or of
`ExecuteTradeBlocked`.

**TradeProtection.** One trade and several overlapping runs of
`manageActiveTrades`. A run waits for a price, for the answer to a modify request,
or for `closeTrade`; `ManageFrom` is the stretch between price and request.
Prices, distances and the plan are integers around `EntryPrice`. The throttle of
1.5 s is a flag; a timeout may find it over. A request given up by the connector
may still arrive (`late`). `missed` is a history variable: why the broker may have
another stop. The trade has an explicit direction and a trailing plan, as
`calculateEntryParameters` always gives one; stop-outs by the broker are not
modelled, a price is finite or its fetch throws.

**BrokerRouter.** One request per call, in the order of the code's tests: kill
switch, market rules, idempotency cache, breaker, then the attempts. `executed`
counts what the broker did; `blame` is a history variable: lost answers,
overlapping calls and expired results of a key. TTL and cooldown end by actions of
their own. Failures of a breaker saturate at the threshold, they are only compared
with it.

**TradeManager.** Scans and flushes are call records with the broker, pair and
candidates they hold over an `await`. `NextBroker`, `NextPair` and `NextTrade` are
the loops between two awaits. Ranking is an arbitrary order; whether the engine
takes a signal is a free choice; a trade may be opened by hand and may end at any
time. The expiry of checks and cooldowns are actions.

**EntryPlan.** Prices of a plan are in ticks, the market price and unrounded
distances in millionths of a tick, so that the decimal constants of the code are
exact. `EntryParameters` is the calculation, a call takes any market. A tie of
`formatPrice` is rounded up where binary arithmetic may go either way. Scores are in
tenths: the analyzer keeps one decimal (`orchestration-coordinator.js:436` keeps
three, which only adds scores between those of the model). The calculation takes price and score as they
are; the cache key rounds them (`KeyPrice`, `KeyScore`), so that several markets share
a key, and a missing score, which counts as 70 in the calculation, is 0 in the key.

**JobQueue.** `runAt` is abstracted to `due`; which due job is first is then a free
choice, so `Takes` describes the sets the loop can take. `timer` says that some
timeout is under way; each `processNext` adds one, so a timeout that fires may
leave another. Handlers are asynchronous and settle.

**RealtimeRunner.** A task is a flush or a revalidation: what is left of its batch and
the symbol it awaits the engine for, with the bar it read before. A bar is its number,
the minimum interval has passed or not, a signal is what the decision to publish reads
of it. Everything that keeps a symbol from being analysed or published is one of
`PassOver`, `HoldBack` and `Withhold`, by what it leaves behind.

**MarketSeries, EaLearning.** One symbol on one timeframe, minutes as time; factors in
thousandths. Payloads are newest first, as the expert sends them.

**DataQuality, ExecutionAnswer.** Time is a small integer, as the breaker, the report
and the streak have durations that are compared. An assessment finds any of a set of
qualities; what it found of the breaker before its awaits travels with it.
`ExecutionAnswer` adds polls, the symbols the dashboard follows and the other guards,
which turn at any time.

**SnapshotRequests, ManagementCommands.** Both ends are modelled: the queue of the
bridge and the expert's side of it. In the latter a text is a sequence of marks and
words, long enough for what the scanner tells apart.

**PriceFetcher, Reconciliation, CacheService, PersistenceBackoff, PrefetchScheduler,
AlertBus.** Calls are records of what they hold over their await; durations count
down. History variables say which calls overlapped something newer; the properties
say that nothing else goes wrong.

## 4. Runs

| Run | Shows | Bounds and why they are enough |
|---|---|---|
| `engine_safety` | risk limits, closed stays closed, orphans explained, `TradeBook` implemented | two trades (two openings of one symbol, sizes 1 and 2, budget 3 so that the budget and the per-symbol limit both bind), two closers (any two closes overlap, one may be the manual-close route), two pairs, one midnight (a refund after the reset) |
| `engine_max_trades` | *violated*: two signals pass the concurrency test before either is executed | limit 1, two signals |
| `router_calls` | duplicates explained, truth of results and cache | three calls of every kind on one broker, one key, two attempts, breaker and log that reach their limits |
| `manager_overlap` | intervals of enabled brokers, doubling only by overlap | two brokers, one scan over both, two flushes, one pair (doubling is about one pair), two trades |
| `manager_unmonitored` | *violated*: a trade is opened after everything stopped and nobody monitors it | one of each |
| `protection_safety` | the stop is never loosened, nothing lies beyond it, the broker's stop is explained | two overlapping cycles, both directions, prices at the stop, at breakeven on either side, and at two trailing steps |
| `protection_liveness` | with the supervisor on, a market that stays at a level closes the trade | the same cycles, prices at stop, entry, breakeven and target |
| `protection_breakeven` | *violated*: an adverse move triggers breakeven | one cycle at a time |
| `entry_trailing` | *violated*: the trailing plan of the distances before refinement is kept | one market |
| `management_commands` | *violated*: what a reply tells the terminal is not executed | two positions, profits at every threshold of the plan, queue of two |
| `components` | eleven components, see below | see below |
| `progress` | five services, see below | see below |

`components` and `progress` check several modules that share no state. Their initial
state picks one (`active`); the others stay as they start, so the state spaces add up
instead of multiplying.

| In | Module | Shows | Bounds |
|---|---|---|---|
| `components` | `EntryPlan` | sides, ratio and rounding of plans; what the cache may return | all regimes, scores at both clamps and missing, two scores that share a key, levels near and far on both sides, three prices of which two share a key, fetched or not; one cache entry, as entries of different keys do not interact |
| | `RealtimeRunner` | a waiting symbol has a flush to come; a bar is announced twice only after an overtaken task; the interval is missed only after candidates, errors or an analysis under way | two bars, four kinds of signal, and the symbols two ways: one that is published, by one flush beside one revalidation (repeats and throttling are about one symbol), and two that are flushed one at a time by two flushes, so that a flush leaves a remainder and arms the next one |
| | `MarketSeries` | candles of a minute are exact; bars are the newest | three minutes, two prices, series of two, three quotes |
| | `EaLearning` | the pause comes at a lowered risk | the longest run to a pause after the best streak (14 deals) |
| | `DataQuality`, `ExecutionAnswer` | an open breaker blocks; it is released early only by overlap; no entry while paused | two assessments, one poll, three qualities, durations in the order of the code's |
| | `Reconciliation` | two chains, or one after stop, only after a start or stop during a run | three chains |
| | `CacheService`, `PersistenceBackoff`, `PrefetchScheduler` | a late result undoes a newer one only where operations overlapped | two callers each, two versions, a cache of one |
| | `SnapshotRequests` | nothing guarded is asked for; what is asked for although a fresh snapshot is there was asked for before it came | two symbols, two charts, one symbol per poll |
| | `PriceFetcher` | quota nearly kept | two providers and keys, one provider that counts twice and serves one key |
| `progress` | `JobQueue` | nothing lost, wake-ups, every accepted job settles | four jobs: without a handler, two with one id of which one has a retry, another; one slot and a queue of one |
| | `TradeManager` | queued signals are flushed | one broker, pair, trade and scan, two flushes |
| | `SnapshotRequests` | what is asked for is handed to a terminal or expires: it is not passed over for ever | as above |
| | `PriceFetcher` | breakers end | as above |
| | `AlertBus` | what a channel failed to deliver is sent again | two channels |

Deadlock is checked except where finite calls may all have returned (engine, router)
or a bound ends the behaviour (`components`, `progress`, `management_commands`). `TradeManager` needs a free scan to start a broker and a free flush for
a timer: these bounds (`Scan`, `Flush`, `Trade`) delay steps and add none.
`MaxDays`, `MaxPlans`, `AuditLimit` and the sets of calls bound the rest.

### Fairness

- `TradeManager`: weak fairness of the continuation of every scan and flush. Their
  awaits are the connection check, the signal of a pair and `executeTrade`, which
  catch their errors, and the connectors' HTTP clients have timeouts. Strong
  fairness of the flush timer, because the bound on flushes may disable it for a
  while; in the code it always fires.
- `TradeProtection`: weak fairness of the interval reaching the trade, of answers
  to modify and close requests (answered or timed out); strong fairness of a price
  arriving, which only says that prices do not fail for ever.
- `SnapshotRequests`: charts poll, and send or give up what they took.
- `PriceFetcher`: requests end, by their timeout at the latest, and breakers expire.
- `AlertBus`: a publisher whose condition stands publishes on its timer, channels end,
  and time passes.
- `JobQueue`: the event loop runs `setImmediate` and timeouts, time passes, handlers
  settle.

In `progress` the fairness of a service that does not move asks for nothing, because
none of the actions it is about can happen in that service's initial state. Nothing is
assumed of callers, the operator or the market. `ReachedLevelCloses` and
`JobsSettle` are conditional: on a market that stays at the level, and on a queue
that stays running.

## 5. Findings

- **Trailing plan overwritten** (`entry_trailing`). After levels refine stop and
  target, `trading-engine.js:818` replaces the refined trailing plan by the one of
  the old distances. A nearer target is then reached before trailing can start. A
  target moved away makes trailing start *before* breakeven, and breakeven then
  takes the trailed stop back to the entry; `StopNeverLoosens` is therefore stated
  for plans in which breakeven comes first (`Consistent`).
- **Breakeven on a loss** (`protection_breakeven`). `shouldMoveToBreakeven` compares
  an absolute distance, so an adverse move of half the target distance sets the
  stop to the entry, and the same cycle closes the trade.
- **Unmonitored trades** (`manager_unmonitored`). A scan or flush under way when
  everything is stopped opens its candidates although no interval is left.
- **More trades than the maximum** (`engine_max_trades`). The limit is tested when a
  signal is generated and not when it is executed.

- **Commands the expert cannot find** (`management_commands`). The scanner that looks
  for a quoted key outside strings takes the quote that begins the key for the start
  of a string, before it compares. It never finds a key, and what a terminal is told
  to do with its positions is not done. The MQL4 expert has the same scanner.

Seen while modelling, without a run of their own: the cache key of an entry has no
ATR and no levels in it, and none of the price when the fetch failed, it rounds price
and score, a missing score has the key of a score of 0 but counts as 70, and entries
are never removed (`OnlyUnkeyedInputsStale` says that nothing else is stale); several
signals sized on one day's budget may exceed it together (`FreshSignalKeepsBudget`
says that one sized on what is left never does); the
reward bias of the regime never shows (`TargetIgnoresRegime`); the supervisor's
breakeven is never sent to the broker, since it moves the stop before
`stopLossBefore` is read; with the supervisor on, a stop that it took back and that trails again to the one
sent last is not sent ("SL unchanged", `execution-engine.js:384`) while the request
for a lesser stop is still out, and the broker is left with the lesser one
(`BrokerStopExplained` is therefore about the supervisor being off); jobs that share
an id exceed the queue's concurrency;
the floor of the reward of an unrefined entry is the constant 1.6, also where
`minRiskReward` is configured higher (1.7 in the `smart_strong` preset). In the
bridge: a quote missing beside bars is seeded from the last element of the payload,
the oldest bar of a newest-first one (`ea-bridge-service.js:2162`); the spread guard
averages a field that quotes do not have (2596); the guard does not look at the age
of a data quality report (2659); a deal reported twice, or by two charts, is learnt
twice (3064). In the runner, the minimum interval reads the key of the signal stream
only, so candidates are analysed again at once, and a signal that fails validation
rejects the flush, which nobody handles (`realtime-ea-signal-runner.js:1157`). A
failed request has quality 0, which opens the breaker of its provider at the first
failure, whatever the failure threshold (`price-data-fetcher.js:1460`).
`heartbeat-monitor.js:181` looks up a pair where the trade manager stores broker and
pair, so every pair looks stale. `startAutoTrading` awaits the connection check, and a
stop meanwhile is answered "not running" (`trade-manager.js:832`).

## 6. Proofs

Every safety property a run checks is a theorem: it holds for every value of the
constants that satisfies the named assumptions, sets of calls of any size (finite
where they are counted), any limits, prices and plans. TLC evaluates the assumptions
in the runs. They are `EngineAssumption`, `ProtectionAssumption`, `RouterAssumption`,
`PlanAssumption`, `JobQueueAssumption` and `ManagerAssumption`, and in `Components`:

| Assumption | Why the code justifies it |
|---|---|
| `RunnerAssumption` | a flush is not a revalidation, `maxSymbolsPerFlush` is positive, bars are numbered |
| `SeriesAssumption` | prices that are not positive are not taken (`allowZero: false`); limits of series and payloads are positive |
| `LearningAssumption` | `maxConsecutiveLosses` is 3 in the constructor and never changed |
| `QualityAssumption` | durations are naturals; the defaults use a report (5 minutes) longer than the window in which healthy ones count (4), and two healthy ones clear a breaker |
| `CacheAssumption` | `maxSize` is positive: 0 selects the default |
| `FetcherAssumption` | finitely many keys are asked for, a quota is positive |
| `SnapshotAssumption` | a poll hands out at least one symbol |
| `PrefetchAssumption`, `ReconciliationAssumption` | the bounds of the models are naturals |

`ComponentsSpec` is the conjunction of the ten specifications, so the theorems about it
cover every way the components move beside each other; `MCComponents` moves one at a
time. `PlansAreSound` alone has a hypothesis of its own, ATR of at least two ticks,
and needs it: for an ATR of one tick, a price of 1000.49 ticks and levels at 1000 and
1002, TLC finds an entry whose refined stop is rounded onto the entry, with risk 0.

| Theorem | Argument |
|---|---|
| `ExecutionEngineProofs!TypeCorrect`, `ClosedStaysInactive`, `OrphansAreExplained`, `FreshSignalsKeepBudget` | The invariants are not inductive: a close under way reaches a trade whose call may still be answered. Added are: a trade in the map has been started, a broker on a trade means a filled order, what a closer holds matches its stage and the trade's call, and a position without a trade has a cause already or a closer that will supply it. |
| `ExecutionEngineProofs!EngineImplementsBook` | Step by step under the same invariant. An opening, a failed or blocked one, and the two ends of a close are the steps of `TradeBook`; all others leave its view (map, history, failed calls, claims of closers) as it is. |
| `ExecutionEngineProofs!SymbolRiskIsBounded`, `DailyRiskCoversOpenTrades` | Sums over finite sets: taking out an element subtracts its term, proved without induction by a smallest set for which it fails. The risk per symbol changes where a trade enters the map, with the test in the same step, and where one leaves. For the day: no trade is charged later than the last reset, a trade in the map is charged, and the day's risk with what failed orders gave back on a later day is at least the risk of all trades charged since the reset, whether or not they are still open. |
| `BrokerRouterProofs!TypeCorrect`, `DuplicatesAreExplained`, `SuccessesAreExecuted` | Every call is in step with what was executed, stored and blamed for its key: an executed order whose key is neither cached nor blamed is still in flight, and then it is the only one. |
| `BrokerRouterProofs!CacheIsTruthful` | A call that has returned keeps what it was told, and the cache is written only with what the writer is told in the same step. That a success is never forgotten or overwritten by a failure needs more: as long as the key has no excuse there is at most one call in flight for it, and nothing is stored while that one is. |
| `TradeManagerProofs!TypeCorrect`, `DoublesNeedAScan`, `IntervalsRun` | Added is where a call is (what it still may open, its broker and pair) and that a scan has not opened what it still holds; it collects a pair once, and a flush asks for an open trade in the step that opens one. |
| `TradeProtectionProofs!TypeCorrect`, `BrokerStaysBehind`, `StopsOnlyImprove` | For consistent plans no stop known to anybody (broker, requests in flight, late ones) is better than the trade's; the trade has been moved to breakeven before it trails, so breakeven cannot loosen it; with that, `StopNeverLoosens` and `NothingBeyondTheStop`. |
| `TradeProtectionProofs!BrokerStopIsExplained`, `LoosensOnlyByRace` | `lastBrokerStopLossSent` is never better than the trade's stop, so that it equals the next stop only if the stop did not move. While nothing is missed, the trade's stop is at the broker or on its way, and no other is; while nothing was overtaken, at most one request is out and it improves what the broker has. |
| `EntryPlanProofs!RewardIsMinimum` | The clamps keep the stop multiple between 1.05 and 2.6, where 1.6 times it exceeds every biased multiple and stays below the upper clamp; every cached entry then has that ratio. |
| `EntryPlanProofs!PlansAreSound` | The clamps leave distances of at least 1.05 ATR, levels only those that keep both sides, and each rounding moves a price by half a tick at most; cached plans were sound when they were stored. |
| `EntryPlanProofs!StaleInputsAreUnkeyed` | Every cached entry was calculated for a market with its key's values, and a hit returns it for a market with the same ones; numbers that are rounded to one multiple of a step are less than a step apart. |
| `JobQueueProofs!NothingIsLost`, `LimitsHold`, `WakeupIsKept` | `inFlight` holds the ids of the executing jobs that share theirs with no other, so the loop's test of its size bounds their handlers; the status of a job says where it is and how often it was tried. |
| `ServicesProofs!ReconcilesAlongOneChain` | Until a start or stop comes during a run there is one timer or one run, and the handle is that of the timer. |
| `ServicesProofs!LateResultsAreExplained` | Three invariants. Cache: a key that a caller missed is not in the cache unless it was stored since, and keys differ, also after an eviction. Backoff: while it lasts, every write under way is older than the failure. Prefetching: cycles under way at once are both noted, and what a lone cycle still has to fetch is due. |
| `ServicesProofs!QuotasAreNearlyKept` | The usage of a provider and the requests that passed its check and are not yet counted, each as often as it will be, stay below the bound: a request takes a key that asks nothing yet, and keys are finite. |
| `BridgeProofs!LosingStreaksLowerTheRisk` | The risk factor after the third, fourth, fifth and sixth loss of a streak, each times 0.8; the corrections of a deal without profit only lower it there. |
| `BridgeProofs!OpenBreakersBlock`, `BreakersAreClearedByOverlap`, `NobodyEntersWhilePaused` | The first is inductive once time, breaker and report are ordered. While a breaker is open and nothing overlapped, an assessment under way started more than the window after the healthy streak did, because a report is used for `Ttl`, which is longer: the streak never reaches two in time. A poll under way whose symbol is not followed saw it dropped. |
| `BridgeProofs!SnapshotRequestsAreExplained` | A symbol is in the queue once; what a poll takes out it guards in the same step. |
| `BridgeProofs!WaitingSymbolsAreFlushed`, `RepeatsAreExplained`, `OnlyCandidatesAreNotThrottled` | A task that was not overtaken read a bar no older than the last one of its streams, and no newer than the latest; on a stream that was never taken back nothing newer than its last bar was announced; an attempt that left a record is one the throttle reads. |
| `BridgeProofs!KeptBarsAreNewest` | A bar is found by its rank: how many times received are newer. Ranks are a bijection between the times and an initial interval of the naturals (by the theorems on injections and surjections of finite sets, without induction), so sorting and taking the first `MaxSeries` keeps exactly the newest. Invariant: the bars kept are those of the first ranks of all that was received; what was cut before stays older than `MaxSeries` others when more arrives. |
| `BridgeProofs!BuiltCandlesAreExact` | The same ranks for candles, and for each candle the first, last, highest and lowest of the quotes of its minute as long as these came together: a quote changes the candle on top only, and puts a new one there when its minute differs. |

Only model-checked is liveness (`JobsSettle`, `CandidatesAreFlushed`,
`RequestsReachTerminal`, `BreakerEnds`, `AlertsAreRepeated`, `ReachedLevelCloses`),
which is out of the prover's reach like everything about `ENABLED`, and the five
disagreements of section 5, which are counterexamples.
