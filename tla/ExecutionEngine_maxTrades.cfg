\* Two signals pass the concurrency check before either is executed.
SPECIFICATION Spec
CONSTANTS
  t1 = t1  t2 = t2  c1 = c1  c2 = c2  p1 = p1  p2 = p2
  NoTrade = NoTrade  NoPair = NoPair
  Trade <- MCTrade
  Closer <- MCCloser1
  Pair <- MCPair
  Risks = {1}
  MinRisk = 1
  MaxDailyRisk = 3
  MaxRiskPerSymbol = 3
  MaxConcurrentTrades = 1
  MaxDays = 0
CHECK_DEADLOCK FALSE
INVARIANTS ActiveTradesWithinMax
