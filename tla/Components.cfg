\* One component at a time.
SPECIFICATION MCSpec
CONSTANTS
  NoEntry = NoEntry
  NoScore = NoScore
  Score <- MCScores
  State <- MCRegimes
  Atr = {10}
  Price <- MCPrices
  Live = {TRUE, FALSE}
  Support = {982, 992}
  Resistance = {1008}
  MinRR = 16
  KeyTick = 1000000
  MaxPlans = 1
  None = None
  Symbol = {s1, s2}  Flush = {f1, f2}  s1 = s1  f1 = f1  Reval = {v1}  Signals <- MCSignals  MaxPerFlush = 1
  EntryOnly = FALSE  AllowCandidates = TRUE  MaxBar = 2
  Prices = {1, 2}  MaxAge = 1  MaxCandles = 2  MaxSeries = 2  Depth = {1, 2}
  MaxTime = 3  MaxQuotes = 3
  Session = {s1}  MaxHistory = 2  MaxLosses = 3  MaxTransactions = 14
  Signal = {g1, g2}  Quality <- MCQuality  Ttl = 2  Window = 1  MinHealthy = 2
  MinScore = 78  Duration = 4  MaxNow = 6  Asker = {p1}
  SnapSymbol = {y1, y2}  Chart = {c1, c2}  MaxPerPoll = 1
  MaxChains = 3
  CachedKey = {k1, k2}  Getter = {g1, g2}  MaxSize = 1  MaxVersion = 2
  Write = {g1, g2}  RetryMax = 3
  Series = {k1, k2}  Cycle = {g1, g2}  Cadence = 2  MaxPairs = 2  MaxTick = 4
  q1 = q1  q2 = q2  k1 = k1  k2 = k2
  Provider = {q1, q2}  FetchKey = {k1, k2}  Serves <- MCServes  TellsItself = {q2}
  MaxRequests = 1  Cooldown = 2
CHECK_DEADLOCK FALSE
INVARIANTS PlanIsSound TargetIgnoresRegime OnlyUnkeyedInputsStale WaitingHasFlush RepeatExplained
  CandlesAreExact BarsAreNewest PausedRiskIsLow OpenBreakerBlocks ReenabledOnlyByOverlap
  ChainsExplained LateResultsExplained SnapshotsAskedExplained QuotaNearlyKept
PROPERTIES ThrottleMissesOnlyCandidates NoEntryWhilePaused
